---- MODULE Spec2Model ----
(***************************************************************************)
(* Derived-field engine of the exoplanet processing pipeline               *)
(* (src/data/process_exoplanets.py).                                       *)
(*                                                                         *)
(* A row of the data frame is a function from column names to cell values; *)
(* the frame is its first row df followed by the rows peers.  A cell       *)
(* is <<>> when the measurement is absent (NaN/None)                       *)
(* and <<v>> when it is present.  Numbers are fixed-point integers, one    *)
(* scale per column:                                                       *)
(*   pl_eqt, st_teff                     tenths of a kelvin                *)
(*   pl_rade, pl_bmasse, pl_orbper       thousandths                       *)
(*   pl_insol                            thousandths of Earth flux         *)
(*   pl_dens, st_met, st_mass,                                             *)
(*   pl_orbeccen, pl_orbsmax, x, y, z    hundredths                        *)
(*   sy_dist, st_age, pl_bmassj          tenths                            *)
(*   sy_pnum, sy_snum, the 0/1 flags     units                             *)
(* Every threshold below is the source's literal in the column's scale.    *)
(* A spectral type is a sequence of one-character strings.                 *)
(***************************************************************************)
EXTENDS Integers, Sequences, FiniteSets, TLC

VARIABLES
  raw_file,   \* raw/exoplanets_raw.csv: <<>> when it does not exist, else <<frame>>
  df,         \* the first row of the data frame main holds
  peers,      \* the other rows of that frame
  pc,         \* where main is
  error,      \* the exception that ended main, <<>> when none did
  warnings,   \* the allow-listed columns extract_columns reported missing
  out_file    \* out/exoplanets.csv: <<>> when it does not exist, else <<frame>>

vars == <<raw_file, df, peers, pc, error, warnings, out_file>>

(***************************************************************************)
(* Cells                                                                   *)
(***************************************************************************)
NaN == <<>>

Some(v) == <<v>>

isna(c) == c = NaN

notna(c) == c # NaN

Abs(n) == IF n < 0 THEN -n ELSE n

\* row.get(col): the cell, or None when the row has no such column
Get(row, col) == IF col \in DOMAIN row THEN row[col] ELSE NaN

\* df[col] = value: adds the column, or replaces it when it exists
SetCol(row, col, value) ==
  [c \in (DOMAIN row) \cup {col} |-> IF c = col THEN value ELSE row[c]]

RECURSIVE SetCols(_, _)
SetCols(row, writes) ==
  IF writes = <<>> THEN row
  ELSE SetCols(SetCol(row, writes[1][1], writes[1][2]), Tail(writes))

(***************************************************************************)
(* Column definitions                                                      *)
(***************************************************************************)
ESSENTIAL_COLUMNS ==
  << "pl_name", "pl_letter", "hostname",
     "pl_rade", "pl_radj", "pl_bmasse", "pl_bmassj", "pl_bmassprov",
     "pl_dens", "pl_eqt", "pl_insol",
     "pl_orbper", "pl_orbsmax", "pl_orbeccen", "pl_orbincl",
     "pl_trandep", "pl_trandur", "pl_ratror", "pl_ratdor", "pl_imppar",
     "disc_year", "discoverymethod", "disc_facility", "disc_telescope",
     "st_teff", "st_rad", "st_mass", "st_lum", "st_logg", "st_age",
     "st_dens", "st_met", "st_rotp", "st_spectype",
     "sy_snum", "sy_pnum", "sy_mnum", "sy_dist",
     "ra", "dec", "rastr", "decstr", "glat", "glon", "x", "y", "z",
     "cb_flag", "pl_controv_flag", "tran_flag", "rv_flag", "ttv_flag",
     "sy_vmag", "sy_kmag", "sy_gaiamag", "sy_tmag",
     "tic_id", "gaia_dr3_id",
     "pl_rvamp", "st_radv", "st_vsin" >>

RawColumns == {ESSENTIAL_COLUMNS[i] : i \in 1..Len(ESSENTIAL_COLUMNS)}

(***************************************************************************)
(* Planet classification                                                   *)
(***************************************************************************)
classify_planet_type_jupiter_radius(row) ==
  LET radius == row["pl_rade"] IN
  IF isna(radius) THEN NaN
  ELSE IF radius[1] < 1000 THEN Some("Sub-Earth")
  ELSE IF radius[1] < 1250 THEN Some("Earth-sized")
  ELSE IF radius[1] < 2000 THEN Some("Super-Earth")
  ELSE IF radius[1] < 4000 THEN Some("Sub-Neptune")
  ELSE IF radius[1] < 11200 THEN Some("Neptune-like")
  ELSE Some("Gas Giant")

classify_planet_type_strict(row) ==
  LET radius == row["pl_rade"] IN
  IF isna(radius) THEN NaN
  ELSE IF radius[1] <= 1000 THEN Some("Sub-Earth")
  ELSE IF radius[1] <= 1250 THEN Some("Earth-sized")
  ELSE IF radius[1] <= 2000 THEN Some("Super-Earth")
  ELSE IF radius[1] <= 4000 THEN Some("Sub-Neptune")
  ELSE IF radius[1] <= 10000 THEN Some("Neptune-like")
  ELSE Some("Gas Giant")

classify_planet_type(row) ==
  LET radius == row["pl_rade"] IN
  IF isna(radius) THEN NaN
  ELSE IF radius[1] < 1000 THEN Some("Sub-Earth")
  ELSE IF radius[1] < 1250 THEN Some("Earth-sized")
  ELSE IF radius[1] < 2000 THEN Some("Super-Earth")
  ELSE IF radius[1] < 4000 THEN Some("Sub-Neptune")
  ELSE IF radius[1] < 10000 THEN Some("Neptune-like")
  ELSE Some("Gas Giant")

classify_planet_subtype_size_first(row) ==
  LET radius == row["pl_rade"]
      mass   == row["pl_bmasse"]
      temp   == row["pl_eqt"]
  IN
  IF isna(radius) THEN NaN
  ELSE IF radius[1] < 1250 THEN Some("Rocky")
  ELSE IF notna(temp) /\ temp[1] > 10000 THEN
         IF radius[1] > 10000 THEN Some("Hot Jupiter")
         ELSE IF radius[1] > 4000 THEN Some("Hot Neptune")
         ELSE Some("Lava World")
  ELSE IF notna(temp) /\ temp[1] < 2200 /\ radius[1] < 2000 THEN Some("Ice World")
  ELSE IF radius[1] < 2000 THEN
         IF notna(mass) /\ mass[1] > 5000 THEN Some("Dense Super-Earth")
         ELSE Some("Super-Earth")
  ELSE IF radius[1] < 4000 THEN Some("Mini-Neptune")
  ELSE IF radius[1] < 10000 THEN Some("Ice Giant")
  ELSE IF notna(mass) /\ mass[1] > 4000000 THEN Some("Brown Dwarf Candidate")
  ELSE Some("Jovian")

classify_planet_subtype(row) ==
  LET radius == row["pl_rade"]
      mass   == row["pl_bmasse"]
      temp   == row["pl_eqt"]
  IN
  IF isna(radius) THEN NaN
  ELSE IF notna(temp) /\ temp[1] > 10000 THEN
         IF radius[1] > 10000 THEN Some("Hot Jupiter")
         ELSE IF radius[1] > 4000 THEN Some("Hot Neptune")
         ELSE Some("Lava World")
  ELSE IF notna(temp) /\ temp[1] < 2200 /\ radius[1] < 2000 THEN Some("Ice World")
  ELSE IF radius[1] < 1250 THEN Some("Rocky")
  ELSE IF radius[1] < 2000 THEN
         IF notna(mass) /\ mass[1] > 5000 THEN Some("Dense Super-Earth")
         ELSE Some("Super-Earth")
  ELSE IF radius[1] < 4000 THEN Some("Mini-Neptune")
  ELSE IF radius[1] < 10000 THEN Some("Ice Giant")
  ELSE IF notna(mass) /\ mass[1] > 4000000 THEN Some("Brown Dwarf Candidate")
  ELSE Some("Jovian")

(***************************************************************************)
(* Stellar classification                                                  *)
(***************************************************************************)
StarClassLetters == <<"O", "B", "A", "F", "G", "K", "M", "L", "T", "Y">>

StarClassSet == {StarClassLetters[i] : i \in 1..Len(StarClassLetters)}

\* str.upper() on one character of the modelled alphabet
UpperChar(ch) ==
  CASE ch = "o" -> "O" [] ch = "b" -> "B" [] ch = "a" -> "A"
    [] ch = "f" -> "F" [] ch = "g" -> "G" [] ch = "k" -> "K"
    [] ch = "m" -> "M" [] ch = "l" -> "L" [] ch = "t" -> "T"
    [] ch = "y" -> "Y" [] ch = "x" -> "X"
    [] OTHER -> ch

upper(s) == [i \in 1..Len(s) |-> UpperChar(s[i])]

IsSpace(ch) == ch = " "

RECURSIVE lstrip(_)
lstrip(s) ==
  IF s # <<>> /\ IsSpace(Head(s)) THEN lstrip(Tail(s)) ELSE s

RECURSIVE rstrip(_)
rstrip(s) ==
  IF s # <<>> /\ IsSpace(s[Len(s)]) THEN rstrip(SubSeq(s, 1, Len(s) - 1)) ELSE s

strip(s) == rstrip(lstrip(s))

get_star_class_from_spectype_no_strip(spectype) ==
  IF isna(spectype) THEN NaN
  ELSE LET s == upper(spectype[1]) IN
       IF Len(s) = 0 THEN NaN
       ELSE IF s[1] \in StarClassSet THEN Some(s[1])
       ELSE NaN

get_star_class_from_spectype(spectype) ==
  IF isna(spectype) THEN NaN
  ELSE LET s == upper(strip(spectype[1])) IN
       IF Len(s) = 0 THEN NaN
       ELSE IF s[1] \in StarClassSet THEN Some(s[1])
       ELSE NaN

get_star_class_from_temp_exclusive(temperature) ==
  IF isna(temperature) THEN NaN
  ELSE LET temp == temperature[1] IN
       IF temp > 300000 THEN Some("O")
       ELSE IF temp > 100000 THEN Some("B")
       ELSE IF temp > 75000 THEN Some("A")
       ELSE IF temp > 60000 THEN Some("F")
       ELSE IF temp > 52000 THEN Some("G")
       ELSE IF temp > 37000 THEN Some("K")
       ELSE IF temp > 24000 THEN Some("M")
       ELSE IF temp > 13000 THEN Some("L")
       ELSE IF temp > 5500 THEN Some("T")
       ELSE Some("Y")

get_star_class_from_temp(temperature) ==
  IF isna(temperature) THEN NaN
  ELSE LET temp == temperature[1] IN
       IF temp >= 300000 THEN Some("O")
       ELSE IF temp >= 100000 THEN Some("B")
       ELSE IF temp >= 75000 THEN Some("A")
       ELSE IF temp >= 60000 THEN Some("F")
       ELSE IF temp >= 52000 THEN Some("G")
       ELSE IF temp >= 37000 THEN Some("K")
       ELSE IF temp >= 24000 THEN Some("M")
       ELSE IF temp >= 13000 THEN Some("L")
       ELSE IF temp >= 5500 THEN Some("T")
       ELSE Some("Y")

get_star_class(row) ==
  LET spectype_class == get_star_class_from_spectype(Get(row, "st_spectype")) IN
  IF notna(spectype_class) THEN spectype_class
  ELSE get_star_class_from_temp(Get(row, "st_teff"))

(***************************************************************************)
(* Habitability score.  The running score is kept in thirtieths of a point *)
(* (|T - 255| / 3 with T in tenths of a kelvin is a whole number of        *)
(* thirtieths); the returned score is in tenths of a point.                *)
(***************************************************************************)
\* the hard temperature constraint: too hot or too cold
hard_gate_inclusive(temp) == notna(temp) /\ (temp[1] <= 1000 \/ temp[1] >= 5000)

hard_gate(temp) == notna(temp) /\ (temp[1] < 1000 \/ temp[1] > 5000)

temp_score_unbanded(temp) ==
  IF notna(temp) THEN
    IF 1800 <= temp[1] /\ temp[1] <= 5000 THEN 1200 - Abs(temp[1] - 2550)
    ELSE IF 1500 <= temp[1] /\ temp[1] < 1800 THEN 300
    ELSE 0
  ELSE 0

temp_score_flat(temp) ==
  IF notna(temp) THEN
    IF 2000 <= temp[1] /\ temp[1] <= 3200 THEN 1200
    ELSE IF (1800 <= temp[1] /\ temp[1] < 2000) \/ (3200 < temp[1] /\ temp[1] <= 3500) THEN 600
    ELSE IF (1500 <= temp[1] /\ temp[1] < 1800) \/ (3500 < temp[1] /\ temp[1] <= 4000) THEN 300
    ELSE 0
  ELSE 0

temp_score(temp) ==
  IF notna(temp) THEN
    IF 2000 <= temp[1] /\ temp[1] <= 3200 THEN 1200 - Abs(temp[1] - 2550)
    ELSE IF (1800 <= temp[1] /\ temp[1] < 2000) \/ (3200 < temp[1] /\ temp[1] <= 3500) THEN 600
    ELSE IF (1500 <= temp[1] /\ temp[1] < 1800) \/ (3500 < temp[1] /\ temp[1] <= 4000) THEN 300
    ELSE 0
  ELSE 0

size_score(radius) ==
  IF notna(radius) THEN
    IF 800 <= radius[1] /\ radius[1] <= 1500 THEN 900
    ELSE IF (500 <= radius[1] /\ radius[1] < 800) \/ (1500 < radius[1] /\ radius[1] <= 2000) THEN 600
    ELSE IF 2000 < radius[1] /\ radius[1] <= 3000 THEN 300
    ELSE 0
  ELSE 0

\* star_scores.get(star_class, 0)
star_scores(letter) ==
  CASE letter = "G" -> 600 [] letter = "K" -> 540 [] letter = "F" -> 450
    [] letter = "M" -> 360 [] letter = "A" -> 150
    [] OTHER -> 0

star_score(star_class) ==
  IF notna(star_class) THEN star_scores(star_class[1]) ELSE 0

insol_score(insol) ==
  IF notna(insol) THEN
    IF 500 <= insol[1] /\ insol[1] <= 2000 THEN 300
    ELSE IF (250 <= insol[1] /\ insol[1] < 500) \/ (2000 < insol[1] /\ insol[1] <= 4000) THEN 150
    ELSE 0
  ELSE 0

\* round(score, 1): thirtieths of a point to the nearest tenth (a third is
\* never half-way between two tenths)
round1(score) == (score + 1) \div 3

calculate_habitability_score(row) ==
  LET temp == row["pl_eqt"] IN
  IF hard_gate(temp) THEN 0
  ELSE round1(temp_score(temp)
              + size_score(row["pl_rade"])
              + star_score(Get(row, "star_class"))
              + insol_score(row["pl_insol"]))

(***************************************************************************)
(* Display strings.  f"{v:.Nf} unit" is modelled by the text's parts:      *)
(* <<negative, digits, N, unit>>, digits being |v| rounded to N decimals   *)
(* and written without the point ("32.6 light-years" is                    *)
(* <<FALSE, 326, 1, "light-years">>).  Values are exact fractions num/den. *)
(***************************************************************************)
\* |num| / den to the nearest integer, a tie going to the even one
RoundHalfEven(num, den) ==
  LET q == Abs(num) \div den
      r == Abs(num) % den
  IN IF 2 * r > den \/ (2 * r = den /\ q % 2 = 1) THEN q + 1 ELSE q

fixed(num, den, decimals, unit) ==
  Some(<<num < 0, RoundHalfEven(num, den), decimals, unit>>)

\* parsecs in tenths; light_years = parsecs * 3.26156, in millionths
format_distance(parsecs) ==
  IF isna(parsecs) THEN NaN
  ELSE LET light_years == parsecs[1] * 326156 IN
       IF light_years < 100000000 THEN fixed(light_years, 100000, 1, "light-years")
       ELSE IF light_years < 1000000000 THEN fixed(light_years, 1000000, 0, "light-years")
       ELSE fixed(light_years, 100000000, 1, "k light-years")

format_period_inclusive(days) ==
  IF isna(days) THEN NaN
  ELSE IF days[1] <= 1000 THEN fixed(days[1] * 24, 100, 1, "hours")
  ELSE IF days[1] <= 30000 THEN fixed(days[1], 100, 1, "days")
  ELSE IF days[1] <= 365000 THEN fixed(days[1], 3000, 1, "months")
  ELSE fixed(days[1], 36525, 1, "years")

\* days in thousandths
format_period(days) ==
  IF isna(days) THEN NaN
  ELSE IF days[1] < 1000 THEN fixed(days[1] * 24, 100, 1, "hours")
  ELSE IF days[1] < 30000 THEN fixed(days[1], 100, 1, "days")
  ELSE IF days[1] < 365000 THEN fixed(days[1], 3000, 1, "months")
  ELSE fixed(days[1], 36525, 1, "years")

\* earth_masses in thousandths
format_mass(earth_masses) ==
  IF isna(earth_masses) THEN NaN
  ELSE IF earth_masses[1] < 100 THEN fixed(earth_masses[1], 1, 3, "Earth masses")
  ELSE IF earth_masses[1] < 10000 THEN fixed(earth_masses[1], 100, 1, "Earth masses")
  ELSE IF earth_masses[1] < 318000 THEN fixed(earth_masses[1], 1000, 0, "Earth masses")
  ELSE fixed(earth_masses[1], 31780, 1, "Jupiter masses")

\* earth_radii in thousandths
format_radius(earth_radii) ==
  IF isna(earth_radii) THEN NaN
  ELSE IF earth_radii[1] < 2000 THEN fixed(earth_radii[1], 10, 2, "Earth radii")
  ELSE IF earth_radii[1] < 11200 THEN fixed(earth_radii[1], 100, 1, "Earth radii")
  ELSE fixed(earth_radii[1], 1120, 1, "Jupiter radii")

(***************************************************************************)
(* 3D position: thousandths of a parsec (hundredths times tenths)          *)
(***************************************************************************)
calculate_3d_position_all_or_nothing(row) ==
  LET dist == row["sy_dist"] IN
  IF isna(dist) \/ isna(row["x"]) \/ isna(row["y"]) \/ isna(row["z"])
  THEN <<NaN, NaN, NaN>>
  ELSE << Some(row["x"][1] * dist[1]),
          Some(row["y"][1] * dist[1]),
          Some(row["z"][1] * dist[1]) >>

calculate_3d_position(row) ==
  LET dist == row["sy_dist"] IN
  IF isna(dist) THEN <<NaN, NaN, NaN>>
  ELSE << IF notna(row["x"]) THEN Some(row["x"][1] * dist[1]) ELSE NaN,
          IF notna(row["y"]) THEN Some(row["y"][1] * dist[1]) ELSE NaN,
          IF notna(row["z"]) THEN Some(row["z"][1] * dist[1]) ELSE NaN >>

\* df["sy_dist"] * 3.26156, in millionths of a light-year
distance_ly(row) ==
  IF isna(row["sy_dist"]) THEN NaN ELSE Some(row["sy_dist"][1] * 326156)

(***************************************************************************)
(* Element-wise column operations.  A comparison with an absent cell is    *)
(* False; the result is a Boolean cell.                                    *)
(***************************************************************************)
lt(c, k) == Some(notna(c) /\ c[1] < k)

le(c, k) == Some(notna(c) /\ c[1] <= k)

gt(c, k) == Some(notna(c) /\ c[1] > k)

ge_propagating(c, k) == IF isna(c) THEN NaN ELSE Some(c[1] >= k)

ge(c, k) == Some(notna(c) /\ c[1] >= k)

eq(c, k) == Some(notna(c) /\ c[1] = k)

isin(c, S) == Some(notna(c) /\ c[1] \in S)

col_notna(c) == Some(notna(c))

col_isna(c) == Some(isna(c))

\* a & b and a | b on Boolean cells
band(a, b) ==
  IF a = Some(FALSE) \/ b = Some(FALSE) THEN Some(FALSE)
  ELSE IF isna(a) \/ isna(b) THEN NaN
  ELSE Some(TRUE)

bor(a, b) ==
  IF a = Some(TRUE) \/ b = Some(TRUE) THEN Some(TRUE)
  ELSE IF isna(a) \/ isna(b) THEN NaN
  ELSE Some(FALSE)

(***************************************************************************)
(* Feature flags, one operator per section of add_derived_fields; each     *)
(* yields the section's column writes in source order.                     *)
(***************************************************************************)
is_habitable_zone_optimistic(row) ==
  band(ge(row["pl_eqt"], 1500), le(row["pl_eqt"], 3500))

is_habitable_zone(row) == band(ge(row["pl_eqt"], 2000), le(row["pl_eqt"], 3200))

is_earth_like(row) == band(ge(row["pl_rade"], 800), le(row["pl_rade"], 1250))

orbital_characteristics(row) ==
  << <<"is_ultra_short_period", lt(row["pl_orbper"], 1000)>>,
     <<"is_short_period", lt(row["pl_orbper"], 10000)>>,
     <<"is_long_period", gt(row["pl_orbper"], 1000000)>>,
     <<"is_eccentric_orbit", gt(row["pl_orbeccen"], 30)>>,
     <<"is_circular_orbit", lt(row["pl_orbeccen"], 5)>>,
     <<"is_likely_tidally_locked",
       band(lt(row["pl_orbper"], 10000), lt(row["pl_orbsmax"], 10))>> >>

system_architecture(row) ==
  << <<"is_multi_planet_system", gt(row["sy_pnum"], 1)>>,
     <<"is_rich_system", ge(row["sy_pnum"], 4)>>,
     <<"is_only_known_planet", eq(row["sy_pnum"], 1)>>,
     <<"is_circumbinary", eq(row["cb_flag"], 1)>>,
     <<"is_multi_star_system", gt(row["sy_snum"], 1)>> >>

proximity_observability(row) ==
  << <<"is_nearby", lt(row["sy_dist"], 500)>>,
     <<"is_very_nearby", lt(row["sy_dist"], 200)>>,
     <<"is_transiting",
       bor(eq(row["tran_flag"], 1),
           band(col_notna(row["pl_trandep"]), col_notna(row["pl_orbper"])))>>,
     <<"has_rv_data", band(eq(row["rv_flag"], 1), col_notna(row["pl_rvamp"]))>>,
     <<"has_ttv", eq(row["ttv_flag"], 1)>>,
     <<"is_controversial", eq(row["pl_controv_flag"], 1)>> >>

stellar_environment(row) ==
  << <<"is_solar_analog",
       band(eq(row["star_class"], "G"),
            band(ge(row["st_mass"], 80), le(row["st_mass"], 120)))>>,
     <<"is_sun_like_star", isin(row["star_class"], {"F", "G", "K"})>>,
     <<"is_red_dwarf_host", eq(row["star_class"], "M")>>,
     <<"is_young_system", lt(row["st_age"], 10)>>,
     <<"is_mature_system", band(ge(row["st_age"], 10), le(row["st_age"], 80))>>,
     <<"is_ancient_system", gt(row["st_age"], 100)>>,
     <<"is_metal_rich_star", gt(row["st_met"], 10)>>,
     <<"is_metal_poor_star", lt(row["st_met"], -30)>> >>

extreme_worlds(row) ==
  << <<"is_hot_jupiter",
       band(eq(row["planet_type"], "Gas Giant"), gt(row["pl_eqt"], 10000))>>,
     <<"is_hot_neptune",
       band(isin(row["planet_type"], {"Neptune-like", "Sub-Neptune"}),
            gt(row["pl_eqt"], 8000))>>,
     <<"is_ultra_hot", gt(row["pl_eqt"], 20000)>>,
     <<"is_frozen_world", lt(row["pl_eqt"], 1500)>>,
     <<"is_ultra_dense", gt(row["pl_dens"], 800)>>,
     <<"is_puffy", lt(row["pl_dens"], 50)>>,
     <<"is_super_massive", gt(row["pl_bmassj"], 100)>>,
     <<"is_lightweight", lt(row["pl_bmasse"], 500)>> >>

habitability_features(row) ==
  << <<"has_earth_like_insolation",
       band(ge(row["pl_insol"], 500), le(row["pl_insol"], 2000))>>,
     <<"is_conservative_habitable",
       band(ge(row["pl_eqt"], 2000), le(row["pl_eqt"], 2800))>>,
     <<"is_optimistic_habitable",
       band(ge(row["pl_eqt"], 1500), le(row["pl_eqt"], 3500))>>,
     <<"is_top_habitable_candidate",
       band(band(band(row["is_habitable_zone"], le(row["pl_rade"], 2000)),
                 ge(row["pl_rade"], 500)),
            bor(row["is_sun_like_star"], row["is_red_dwarf_host"]))>>,
     <<"is_potentially_rocky",
       band(le(row["pl_rade"], 1600),
            bor(ge(row["pl_dens"], 350), col_isna(row["pl_dens"])))>> >>

(***************************************************************************)
(* Color factors: exact fractions <<numerator, denominator>>               *)
(***************************************************************************)
HALF == <<1, 2>>

clip_unclamped(num, den) == <<num, den>>

\* np.clip(num / den, 0, 1)
clip(num, den) ==
  IF num < 0 THEN <<0, den>>
  ELSE IF num > den THEN <<den, den>>
  ELSE <<num, den>>

\* floor(1000 * log10(d)) for a leading digit d
LOG10_DIGIT == <<0, 301, 477, 602, 698, 778, 845, 903, 954>>

\* np.log10 of a positive integer, in thousandths, taken on its leading
\* digit: exact (to the thousandth) on d * 10^k, monotone everywhere
RECURSIVE log10(_)
log10(n) == IF n >= 10 THEN 1000 + log10(n \div 10) ELSE LOG10_DIGIT[n]

\* (t - 50) / (2500 - 50), t in tenths of a kelvin
color_temp_factor(t) ==
  IF notna(t) THEN clip(t[1] - 500, 25000 - 500) ELSE HALF

\* (d - 0.3) / (8.0 - 0.3), d in hundredths
color_composition_factor(d) ==
  IF notna(d) THEN clip(d[1] - 30, 800 - 30) ELSE HALF

\* (log10(i) - log10(0.01)) / (log10(10000) - log10(0.01)), i in thousandths
color_irradiation_factor(i) ==
  IF notna(i) /\ i[1] > 0
  THEN clip(log10(i[1]) - log10(10), log10(10000000) - log10(10))
  ELSE HALF

\* (m - -0.5) / (0.5 - -0.5), m in hundredths
color_metallicity_factor(m) ==
  IF notna(m) THEN clip(m[1] + 50, 50 + 50) ELSE HALF

color_factors(row) ==
  << <<"color_temp_factor", Some(color_temp_factor(row["pl_eqt"]))>>,
     <<"color_composition_factor", Some(color_composition_factor(row["pl_dens"]))>>,
     <<"color_irradiation_factor", Some(color_irradiation_factor(row["pl_insol"]))>>,
     <<"color_metallicity_factor", Some(color_metallicity_factor(row["st_met"]))>> >>

(***************************************************************************)
(* Which columns a derivation reads.  Indexed: with row[...] or df[...],   *)
(* in source order; a column that is not there raises KeyError.  Gotten:   *)
(* with row.get(...), which reads a column that is not there as None.      *)
(***************************************************************************)
Indexed ==
  [star_class |-> <<>>,
   planet_type |-> <<"pl_rade">>,
   planet_subtype |-> <<"pl_rade", "pl_bmasse", "pl_eqt">>,
   habitability_score |-> <<"pl_eqt", "pl_rade", "pl_insol">>,
   distance_display |-> <<"sy_dist">>,
   period_display |-> <<"pl_orbper">>,
   mass_display |-> <<"pl_bmasse">>,
   radius_display |-> <<"pl_rade">>,
   x_pc |-> <<"sy_dist", "x", "y", "z">>,
   y_pc |-> <<>>,
   z_pc |-> <<>>,
   distance_ly |-> <<"sy_dist">>,
   is_habitable_zone |-> <<"pl_eqt">>,
   is_earth_like |-> <<"pl_rade">>,
   is_ultra_short_period |-> <<"pl_orbper">>,
   is_short_period |-> <<"pl_orbper">>,
   is_long_period |-> <<"pl_orbper">>,
   is_eccentric_orbit |-> <<"pl_orbeccen">>,
   is_circular_orbit |-> <<"pl_orbeccen">>,
   is_likely_tidally_locked |-> <<"pl_orbper", "pl_orbsmax">>,
   is_multi_planet_system |-> <<"sy_pnum">>,
   is_rich_system |-> <<"sy_pnum">>,
   is_only_known_planet |-> <<"sy_pnum">>,
   is_circumbinary |-> <<"cb_flag">>,
   is_multi_star_system |-> <<"sy_snum">>,
   is_nearby |-> <<"sy_dist">>,
   is_very_nearby |-> <<"sy_dist">>,
   is_transiting |-> <<"tran_flag", "pl_trandep", "pl_orbper">>,
   has_rv_data |-> <<"rv_flag", "pl_rvamp">>,
   has_ttv |-> <<"ttv_flag">>,
   is_controversial |-> <<"pl_controv_flag">>,
   is_solar_analog |-> <<"star_class", "st_mass">>,
   is_sun_like_star |-> <<"star_class">>,
   is_red_dwarf_host |-> <<"star_class">>,
   is_young_system |-> <<"st_age">>,
   is_mature_system |-> <<"st_age">>,
   is_ancient_system |-> <<"st_age">>,
   is_metal_rich_star |-> <<"st_met">>,
   is_metal_poor_star |-> <<"st_met">>,
   is_hot_jupiter |-> <<"planet_type", "pl_eqt">>,
   is_hot_neptune |-> <<"planet_type", "pl_eqt">>,
   is_ultra_hot |-> <<"pl_eqt">>,
   is_frozen_world |-> <<"pl_eqt">>,
   is_ultra_dense |-> <<"pl_dens">>,
   is_puffy |-> <<"pl_dens">>,
   is_super_massive |-> <<"pl_bmassj">>,
   is_lightweight |-> <<"pl_bmasse">>,
   has_earth_like_insolation |-> <<"pl_insol">>,
   is_conservative_habitable |-> <<"pl_eqt">>,
   is_optimistic_habitable |-> <<"pl_eqt">>,
   is_top_habitable_candidate |->
     <<"is_habitable_zone", "pl_rade", "is_sun_like_star", "is_red_dwarf_host">>,
   is_potentially_rocky |-> <<"pl_rade", "pl_dens">>,
   color_temp_factor |-> <<"pl_eqt">>,
   color_composition_factor |-> <<"pl_dens">>,
   color_irradiation_factor |-> <<"pl_insol">>,
   color_metallicity_factor |-> <<"st_met">>]

Gotten(col) ==
  CASE col = "star_class" -> {"st_spectype", "st_teff"}
    [] col = "habitability_score" -> {"star_class"}
    [] OTHER -> {}

DerivedColumns == DOMAIN Indexed

AllColumns == RawColumns \cup DerivedColumns

Range(seq) == {seq[i] : i \in 1..Len(seq)}

\* The columns computing col for this row indexes: the row functions return
\* early (hard gate, absent distance) before they index the later columns
Needs(col, row) ==
  IF col = "habitability_score" /\ "pl_eqt" \in DOMAIN row /\ hard_gate(row["pl_eqt"])
  THEN <<"pl_eqt">>
  ELSE IF col = "x_pc" /\ "sy_dist" \in DOMAIN row /\ isna(row["sy_dist"])
  THEN <<"sy_dist">>
  ELSE Indexed[col]

\* The row with every column that is not there read as absent
Pad(row) == [c \in AllColumns |-> Get(row, c)]

(***************************************************************************)
(* add_derived_fields: the sections in source order, and what each writes  *)
(***************************************************************************)
SECTIONS_score_first ==
  << "habitability_score", "star_class", "planet_type", "planet_subtype",
     "display", "positions", "distance_ly", "is_habitable_zone",
     "is_earth_like", "orbital_characteristics", "system_architecture",
     "proximity_observability", "stellar_environment", "extreme_worlds",
     "habitability_features", "color_factors" >>

SECTIONS ==
  << "star_class", "planet_type", "planet_subtype", "habitability_score",
     "display", "positions", "distance_ly", "is_habitable_zone",
     "is_earth_like", "orbital_characteristics", "system_architecture",
     "proximity_observability", "stellar_environment", "extreme_worlds",
     "habitability_features", "color_factors" >>

SectionWrites(name, row) ==
  CASE name = "star_class" -> << <<"star_class", get_star_class(row)>> >>
    [] name = "planet_type" -> << <<"planet_type", classify_planet_type(row)>> >>
    [] name = "planet_subtype" ->
         << <<"planet_subtype", classify_planet_subtype(row)>> >>
    [] name = "habitability_score" ->
         << <<"habitability_score", Some(calculate_habitability_score(row))>> >>
    [] name = "display" ->
         << <<"distance_display", format_distance(row["sy_dist"])>>,
            <<"period_display", format_period(row["pl_orbper"])>>,
            <<"mass_display", format_mass(row["pl_bmasse"])>>,
            <<"radius_display", format_radius(row["pl_rade"])>> >>
    [] name = "positions" ->
         LET positions == calculate_3d_position(row) IN
         << <<"x_pc", positions[1]>>,
            <<"y_pc", positions[2]>>,
            <<"z_pc", positions[3]>> >>
    [] name = "distance_ly" -> << <<"distance_ly", distance_ly(row)>> >>
    [] name = "is_habitable_zone" ->
         << <<"is_habitable_zone", is_habitable_zone(row)>> >>
    [] name = "is_earth_like" -> << <<"is_earth_like", is_earth_like(row)>> >>
    [] name = "orbital_characteristics" -> orbital_characteristics(row)
    [] name = "system_architecture" -> system_architecture(row)
    [] name = "proximity_observability" -> proximity_observability(row)
    [] name = "stellar_environment" -> stellar_environment(row)
    [] name = "extreme_worlds" -> extreme_worlds(row)
    [] name = "habitability_features" -> habitability_features(row)
    [] name = "color_factors" -> color_factors(row)

\* Where control goes after a section: the next one, or back to main
NextLabel(name) ==
  LET i == CHOOSE j \in 1..Len(SECTIONS) : SECTIONS[j] = name IN
  IF i < Len(SECTIONS) THEN SECTIONS[i + 1] ELSE "generate_summary"

\* Index of the first write of a section that raises KeyError on this row,
\* Len(writes) + 1 when none does
RECURSIVE FirstRaise(_, _, _)
FirstRaise(row, writes, i) ==
  IF i > Len(writes) THEN i
  ELSE IF ~(Range(Needs(writes[i][1], row)) \subseteq DOMAIN row) THEN i
  ELSE FirstRaise(SetCol(row, writes[i][1], writes[i][2]), writes, i + 1)

Min(S) == CHOOSE n \in S : \A m \in S : n <= m

FirstMissing(seq, row) ==
  seq[Min({i \in 1..Len(seq) : seq[i] \notin DOMAIN row})]

FILE_NOT_FOUND == Some(<<"FileNotFoundError", "Run fetch_exoplanets.py first.">>)

KeyError(col) == Some(<<"KeyError", col>>)

\* One section on the whole frame (df is its first row, peers the others):
\* every column assignment up to the first one that raises is made on every
\* row; a KeyError leaves add_derived_fields and main.
Section(name) ==
  /\ LET frame == <<df>> \o peers
         writes(i) == SectionWrites(name, Pad(frame[i]))
         stop(i) == FirstRaise(frame[i], writes(i), 1)
         k == Min({stop(i) : i \in DOMAIN frame})
         after(i) == SetCols(frame[i], SubSeq(writes(i), 1, k - 1))
     IN
     /\ df' = after(1)
     /\ peers' = [i \in DOMAIN peers |-> after(i + 1)]
     /\ IF k > Len(writes(1))
        THEN pc' = NextLabel(name) /\ error' = error
        ELSE LET j == Min({i \in DOMAIN frame : stop(i) = k}) IN
             /\ pc' = "raised"
             /\ error' = KeyError(FirstMissing(Needs(writes(j)[k][1], after(j)),
                                               after(j)))
  /\ UNCHANGED <<raw_file, warnings, out_file>>

StarClassStep ==
  /\ pc = "star_class"
  /\ Section("star_class")

PlanetTypeStep ==
  /\ pc = "planet_type"
  /\ Section("planet_type")

PlanetSubtypeStep ==
  /\ pc = "planet_subtype"
  /\ Section("planet_subtype")

HabitabilityScoreStep ==
  /\ pc = "habitability_score"
  /\ Section("habitability_score")

DisplayStep ==
  /\ pc = "display"
  /\ Section("display")

PositionsStep ==
  /\ pc = "positions"
  /\ Section("positions")

DistanceLyStep ==
  /\ pc = "distance_ly"
  /\ Section("distance_ly")

HabitableZoneStep ==
  /\ pc = "is_habitable_zone"
  /\ Section("is_habitable_zone")

EarthLikeStep ==
  /\ pc = "is_earth_like"
  /\ Section("is_earth_like")

OrbitalStep ==
  /\ pc = "orbital_characteristics"
  /\ Section("orbital_characteristics")

SystemStep ==
  /\ pc = "system_architecture"
  /\ Section("system_architecture")

ProximityStep ==
  /\ pc = "proximity_observability"
  /\ Section("proximity_observability")

StellarStep ==
  /\ pc = "stellar_environment"
  /\ Section("stellar_environment")

ExtremeStep ==
  /\ pc = "extreme_worlds"
  /\ Section("extreme_worlds")

HabitabilityFeaturesStep ==
  /\ pc = "habitability_features"
  /\ Section("habitability_features")

ColorFactorsStep ==
  /\ pc = "color_factors"
  /\ Section("color_factors")

(***************************************************************************)
(* main: load, extract, derive, summarise, save                            *)
(***************************************************************************)
LoadRawData_unchecked ==
  /\ pc = "load_raw_data"
  /\ IF isna(raw_file)
     THEN df' = <<>> /\ peers' = <<>>
     ELSE df' = Head(raw_file[1]) /\ peers' = Tail(raw_file[1])
  /\ pc' = "extract_columns"
  /\ UNCHANGED <<raw_file, error, warnings, out_file>>

LoadRawData ==
  /\ pc = "load_raw_data"
  /\ IF isna(raw_file)
     THEN /\ pc' = "raised"
          /\ error' = FILE_NOT_FOUND
          /\ UNCHANGED <<df, peers>>
     ELSE /\ df' = Head(raw_file[1])
          /\ peers' = Tail(raw_file[1])
          /\ pc' = "extract_columns"
          /\ error' = error
  /\ UNCHANGED <<raw_file, warnings, out_file>>

\* df[available].copy(), the missing allow-listed columns printed as a warning
ExtractColumns ==
  /\ pc = "extract_columns"
  /\ LET available == {col \in RawColumns : col \in DOMAIN df}
         missing == {col \in RawColumns : col \notin DOMAIN df}
     IN
     /\ warnings' = missing
     /\ df' = [col \in available |-> df[col]]
     /\ peers' = [i \in DOMAIN peers |-> [col \in available |-> peers[i][col]]]
  /\ pc' = SECTIONS[1]
  /\ UNCHANGED <<raw_file, error, out_file>>

SUMMARY_COLUMNS ==
  << "planet_type", "star_class", "is_habitable_zone", "is_earth_like",
     "habitability_score", "pl_name", "pl_eqt", "pl_rade" >>

\* generate_summary only prints; it raises on a column that is not there
GenerateSummary ==
  /\ pc = "generate_summary"
  /\ IF Range(SUMMARY_COLUMNS) \subseteq DOMAIN df
     THEN pc' = "save_output" /\ error' = error
     ELSE pc' = "raised" /\ error' = KeyError(FirstMissing(SUMMARY_COLUMNS, df))
  /\ UNCHANGED <<raw_file, df, peers, warnings, out_file>>

SaveOutput ==
  /\ pc = "save_output"
  /\ out_file' = Some(<<df>> \o peers)
  /\ pc' = "done"
  /\ UNCHANGED <<raw_file, df, peers, error, warnings>>

Next ==
  \/ LoadRawData
  \/ ExtractColumns
  \/ StarClassStep
  \/ PlanetTypeStep
  \/ PlanetSubtypeStep
  \/ HabitabilityScoreStep
  \/ DisplayStep
  \/ PositionsStep
  \/ DistanceLyStep
  \/ HabitableZoneStep
  \/ EarthLikeStep
  \/ OrbitalStep
  \/ SystemStep
  \/ ProximityStep
  \/ StellarStep
  \/ ExtremeStep
  \/ HabitabilityFeaturesStep
  \/ ColorFactorsStep
  \/ GenerateSummary
  \/ SaveOutput

(***************************************************************************)
(* Input rows.  A row carries every essential column; the columns a group  *)
(* does not vary are absent.  Numeric inputs sit on and within Delta grid  *)
(* steps of the thresholds the source compares them with.                  *)
(***************************************************************************)
Delta == 1

MaxLen == 2

Around(L) == {l + d : l \in L, d \in (0 - Delta)..Delta}

Cells(S) == {NaN} \cup {Some(v) : v \in S}

Row(fields) ==
  [c \in RawColumns |-> IF c \in DOMAIN fields THEN fields[c] ELSE NaN]

Chars == {" ", "g", "M", "x", "2"}

LowerLetters == {"o", "b", "a", "f", "g", "k", "m", "l", "t", "y"}

SpecTypes ==
  UNION {[1..k -> Chars] : k \in 0..MaxLen}
    \cup {<<ch>> : ch \in StarClassSet \cup LowerLetters}

PlainClasses == {NaN} \cup {Some(<<ch>>) : ch \in {"G", "K", "F", "M", "A", "B"}}

TeffCells ==
  Cells(Around({300000, 100000, 75000, 60000, 52000, 37000, 24000, 13000, 5500}))

StarRows ==
  {Row(f) : f \in [st_spectype : Cells(SpecTypes), st_teff : TeffCells]}

PlanetRows ==
  {Row(f) : f \in [pl_rade : Cells(Around({1000, 1250, 2000, 4000, 10000})),
                   pl_bmasse : Cells(Around({5000, 4000000})),
                   pl_eqt : Cells(Around({2200, 10000}))]}

InsolValues == {0 - 1000, 0, 1, 10, 200, 250, 300, 400, 500, 600, 1000, 2000,
                3000, 4000, 5000, 10000000, 20000000}

HabRows ==
  {Row(f) : f \in [pl_eqt : Cells(Around({1000, 1500, 1800, 2000, 2550, 3200,
                                           3500, 4000, 4500, 5000})),
                   pl_rade : Cells(Around({500, 800, 1000, 1500, 2000, 3000})),
                   st_spectype : {NaN, Some(<<"G">>)},
                   pl_insol : {NaN, Some(1000)}]}
    \cup
  {Row(f) : f \in [pl_eqt : Cells({999, 1000, 2550, 4500, 5000, 5001}),
                   pl_rade : Cells({1000}),
                   st_spectype : PlainClasses,
                   pl_insol : Cells(InsolValues)]}

GeomRows ==
  {Row(f) : f \in [sy_dist : Cells({0, 13, 100}),
                   x : Cells({0 - 50, 0, 50, 100}),
                   y : Cells({0 - 50, 0, 50, 100}),
                   z : Cells({0 - 50, 0, 50, 100})]}

FlagRows ==
  {Row(f) : f \in [pl_orbper : Cells(Around({1000, 10000, 1000000})),
                   pl_orbeccen : Cells(Around({5, 30})),
                   pl_orbsmax : Cells(Around({10}))]}
    \cup
  {Row(f) : f \in [sy_pnum : Cells(0..(4 + Delta)),
                   cb_flag : Cells({0, 1}),
                   sy_snum : Cells({1, 2, 3})]}
    \cup
  {Row(f) : f \in [sy_dist : Cells(Around({200, 500}))]}
    \cup
  {Row(f) : f \in [tran_flag : Cells({0, 1}), pl_trandep : Cells({1}),
                   pl_orbper : Cells({3000}),
                   rv_flag : Cells({0, 1}), pl_rvamp : Cells({1}),
                   ttv_flag : Cells({0, 1}), pl_controv_flag : Cells({0, 1})]}
    \cup
  {Row(f) : f \in [st_spectype : PlainClasses,
                   st_mass : Cells(Around({80, 120}))]}
    \cup
  {Row(f) : f \in [st_age : Cells(Around({10, 80, 100})),
                   st_met : Cells(Around({0 - 30, 10}))]}
    \cup
  {Row(f) : f \in [pl_rade : Cells(Around({2000, 4000, 10000})),
                   pl_eqt : Cells(Around({1500, 8000, 10000, 20000}))]}
    \cup
  {Row(f) : f \in [pl_dens : Cells(Around({50, 350, 800})),
                   pl_rade : Cells(Around({1600})),
                   pl_bmassj : Cells(Around({100})),
                   pl_bmasse : Cells(Around({500}))]}
    \cup
  {Row(f) : f \in [pl_eqt : Cells(Around({1500, 2000, 2800, 3200, 3500})),
                   pl_rade : Cells(Around({500, 2000})),
                   st_spectype : PlainClasses,
                   pl_insol : Cells({499, 500, 2000, 2001})]}

ColorRows ==
  {Row(f) : f \in [pl_eqt : Cells(Around({500, 25000}) \cup {0 - 2730, 13000, 900000}),
                   pl_dens : Cells(Around({30, 800}) \cup {0, 415, 100000})]}
    \cup
  {Row(f) : f \in [pl_insol : Cells(InsolValues),
                   st_met : Cells(Around({0 - 50, 50}) \cup {0 - 900, 0, 900})]}

\* main starts on a raw file holding one of the frames (or on none, <<>>)
InitOn(files, outputs) ==
  /\ raw_file \in files
  /\ out_file \in outputs
  /\ df = <<>>
  /\ peers = <<>>
  /\ pc = "load_raw_data"
  /\ error = NaN
  /\ warnings = {}

InitWith(rows) == InitOn({Some(<<row>>) : row \in rows}, {NaN})

Init == InitWith(StarRows \cup PlanetRows \cup HabRows \cup GeomRows
                   \cup FlagRows \cup ColorRows)

Spec == Init /\ [][Next]_vars

SpecStar == InitWith(StarRows) /\ [][Next]_vars

SpecPlanet == InitWith(PlanetRows) /\ [][Next]_vars

SpecHab == InitWith(HabRows) /\ [][Next]_vars

SpecGeom == InitWith(GeomRows) /\ [][Next]_vars

SpecFlags == InitWith(FlagRows) /\ [][Next]_vars

SpecColor == InitWith(ColorRows) /\ [][Next]_vars

FormatRows ==
  {Row(f) : f \in [sy_dist : Cells(Around({306, 3066}) \cup {0, 13, 100, 6000})]}
    \cup
  {Row(f) : f \in [pl_orbper : Cells(Around({1000, 30000, 365000})
                                       \cup {0, 500, 12345, 400000})]}
    \cup
  {Row(f) : f \in [pl_bmasse : Cells(Around({100, 10000, 318000})
                                       \cup {0, 50, 5000, 9960, 500000})]}
    \cup
  {Row(f) : f \in [pl_rade : Cells(Around({2000, 11200})
                                     \cup {0, 1000, 1996, 5000, 22400})]}

SpecFormat == InitWith(FormatRows) /\ [][Next]_vars

(***************************************************************************)
(* Schema drift: raw files whose rows lack allow-listed columns or carry a *)
(* column outside the allow-list, a raw file that does not exist, and an   *)
(* output file left by an earlier run.                                     *)
(***************************************************************************)
Drop(row, cols) == [c \in DOMAIN row \ cols |-> row[c]]

WithExtra(row) ==
  [c \in DOMAIN row \cup {"rowid"} |-> IF c = "rowid" THEN Some(1) ELSE row[c]]

DriftBase ==
  { Row([pl_name |-> Some("b"), pl_eqt |-> Some(2880), pl_rade |-> Some(1000),
         pl_bmasse |-> Some(1000), pl_insol |-> Some(1000),
         pl_orbper |-> Some(365000), pl_dens |-> Some(550),
         st_spectype |-> Some(<<"G", "2">>), st_teff |-> Some(57700),
         st_mass |-> Some(100), st_met |-> Some(0),
         sy_dist |-> Some(100), x |-> Some(50), y |-> Some(0), z |-> Some(0)]),
    Row([pl_name |-> Some("c"), pl_eqt |-> Some(9000), pl_rade |-> Some(12000),
         st_teff |-> Some(35000)]),
    Row([pl_name |-> Some("d")]) }

DriftMissing ==
  {{}} \cup {{c} : c \in RawColumns} \cup {{"st_spectype", "st_teff"}}

DriftRows ==
  LET dropped == {Drop(row, cols) : row \in DriftBase, cols \in DriftMissing} IN
  dropped \cup {WithExtra(row) : row \in dropped}

OldOutput == Some(<<Row([pl_name |-> Some("a")])>>)

SpecDrift ==
  /\ InitOn({NaN} \cup {Some(<<row>>) : row \in DriftRows}, {NaN, OldOutput})
  /\ [][Next]_vars

(***************************************************************************)
(* Properties                                                              *)
(***************************************************************************)
Written(col) == col \in DOMAIN df

\* The class letter a spectral-type cell shows, or "" when it shows none
LeadingClass(chars) ==
  IF Len(chars) > 0 /\ UpperChar(chars[1]) \in StarClassSet
  THEN UpperChar(chars[1]) ELSE ""

\* Spectral type first, then temperature, then unknown
ClassByPrecedence(letter, teff) ==
  IF letter # "" THEN Some(letter)
  ELSE IF notna(teff) THEN get_star_class_from_temp(teff)
  ELSE NaN

\* C1 as stated: the star class is the upper-cased first character of the
\* spectral-type string when that is a class letter, whatever the effective
\* temperature; otherwise the temperature-derived class; otherwise unknown.
C1_FirstCharacterDecides ==
  Written("star_class") =>
    LET st == df["st_spectype"] IN
    df["star_class"] =
      ClassByPrecedence(IF notna(st) THEN LeadingClass(st[1]) ELSE "", df["st_teff"])

\* C1 amended: the deciding character is the first character of the
\* spectral-type string after surrounding whitespace is trimmed.
C1_FirstTrimmedCharacterDecides ==
  Written("star_class") =>
    LET st == df["st_spectype"] IN
    df["star_class"] =
      ClassByPrecedence(IF notna(st) THEN LeadingClass(strip(st[1])) ELSE "",
                        df["st_teff"])

C1_Witness ==
  /\ Written("star_class")
  /\ df["st_spectype"] = Some(<<" ", "g">>)
  /\ df["st_teff"] = Some(37000)
  /\ df["star_class"] = Some("G")

\* Lower threshold of each class band, tenths of a kelvin, hottest first
C2_Thresholds ==
  << <<"O", 300000>>, <<"B", 100000>>, <<"A", 75000>>, <<"F", 60000>>,
     <<"G", 52000>>, <<"K", 37000>>, <<"M", 24000>>, <<"L", 13000>>,
     <<"T", 5500>> >>

\* Position in the order Y < T < L < M < K < G < F < A < B < O
C2_Hotness(letter) ==
  CHOOSE n \in 0..9 : <<"Y", "T", "L", "M", "K", "G", "F", "A", "B", "O">>[n + 1] = letter

\* C2: with no class from the spectral type, every present temperature gets
\* exactly one of the ten letters; each threshold is the inclusive lower bound
\* of its class, anything below 550 K is Y; a hotter star never gets a cooler
\* class.
C2_TemperatureBands ==
  (/\ Written("star_class")
   /\ isna(get_star_class_from_spectype(df["st_spectype"]))
   /\ notna(df["st_teff"])) =>
    LET T == df["st_teff"][1]
        class == df["star_class"]
    IN
    /\ notna(class) /\ class[1] \in StarClassSet
    /\ \A i \in 1..Len(C2_Thresholds) :
         /\ T = C2_Thresholds[i][2] => class[1] = C2_Thresholds[i][1]
         /\ (class[1] = C2_Thresholds[i][1]) <=>
              /\ T >= C2_Thresholds[i][2]
              /\ i > 1 => T < C2_Thresholds[i - 1][2]
    /\ T < 5500 <=> class[1] = "Y"
    /\ \A c \in TeffCells :
         notna(c) =>
           LET other == get_star_class_from_temp(c)[1] IN
           /\ c[1] <= T => C2_Hotness(other) <= C2_Hotness(class[1])
           /\ c[1] >= T => C2_Hotness(other) >= C2_Hotness(class[1])

C2_Witness ==
  /\ Written("star_class")
  /\ isna(df["st_spectype"])
  /\ df["st_teff"] = Some(52000)
  /\ df["star_class"] = Some("G")

\* Planet type by radius, thousandths of an Earth radius
C3_TypeOf(r) ==
  CASE r < 1000 -> "Sub-Earth"
    [] 1000 <= r /\ r < 1250 -> "Earth-sized"
    [] 1250 <= r /\ r < 2000 -> "Super-Earth"
    [] 2000 <= r /\ r < 4000 -> "Sub-Neptune"
    [] 4000 <= r /\ r < 10000 -> "Neptune-like"
    [] r >= 10000 -> "Gas Giant"

\* C3: the planet type is unknown iff the radius is absent, and otherwise is
\* decided by the radius alone, a radius on a boundary falling in the larger
\* category whatever the mass and temperature are.
C3_TypeByRadiusOnly ==
  Written("planet_type") =>
    /\ isna(df["planet_type"]) <=> isna(df["pl_rade"])
    /\ notna(df["pl_rade"]) => df["planet_type"] = Some(C3_TypeOf(df["pl_rade"][1]))

C3_Witness ==
  /\ Written("planet_type")
  /\ df["pl_rade"] = Some(1250)
  /\ notna(df["pl_bmasse"]) /\ notna(df["pl_eqt"])
  /\ df["planet_type"] = Some("Super-Earth")

\* C4: radius absent gives an unknown subtype; a present temperature above
\* 1000 K decides first (by radius, whatever the mass); then a present
\* temperature below 220 K with radius below 2.0; only then the radius/mass
\* table.
C4_SubtypePrecedence ==
  Written("planet_subtype") =>
    LET radius == df["pl_rade"]
        mass == df["pl_bmasse"]
        temp == df["pl_eqt"]
        sub == df["planet_subtype"]
        hot == notna(temp) /\ temp[1] > 10000
        icy == notna(temp) /\ temp[1] < 2200 /\ radius[1] < 2000
        heavy(m) == notna(mass) /\ mass[1] > m
    IN
    /\ isna(radius) => isna(sub)
    /\ (notna(radius) /\ hot) =>
         sub = Some(CASE radius[1] > 10000 -> "Hot Jupiter"
                      [] radius[1] > 4000 /\ radius[1] <= 10000 -> "Hot Neptune"
                      [] radius[1] <= 4000 -> "Lava World")
    /\ (notna(radius) /\ ~hot /\ icy) => sub = Some("Ice World")
    /\ (notna(radius) /\ ~hot /\ ~icy) =>
         sub = Some(CASE radius[1] < 1250 -> "Rocky"
                      [] 1250 <= radius[1] /\ radius[1] < 2000 /\ heavy(5000) -> "Dense Super-Earth"
                      [] 1250 <= radius[1] /\ radius[1] < 2000 /\ ~heavy(5000) -> "Super-Earth"
                      [] 2000 <= radius[1] /\ radius[1] < 4000 -> "Mini-Neptune"
                      [] 4000 <= radius[1] /\ radius[1] < 10000 -> "Ice Giant"
                      [] radius[1] >= 10000 /\ heavy(4000000) -> "Brown Dwarf Candidate"
                      [] radius[1] >= 10000 /\ ~heavy(4000000) -> "Jovian")

C4_Witness ==
  /\ Written("planet_subtype")
  /\ df["pl_rade"] = Some(1000)
  /\ df["pl_eqt"] = Some(10001)
  /\ df["pl_bmasse"] = Some(5001)
  /\ df["planet_subtype"] = Some("Lava World")

\* C5: a present equilibrium temperature below 100 K or above 500 K makes the
\* score 0 whatever the radius, stellar class and insolation are; exactly
\* 100 K, exactly 500 K and an absent temperature leave the score to the
\* other three inputs.
C5_HardGate ==
  Written("habitability_score") =>
    LET temp == df["pl_eqt"]
        score == df["habitability_score"][1]
        rest == size_score(df["pl_rade"]) + star_score(df["star_class"])
                  + insol_score(df["pl_insol"])
    IN
    /\ (notna(temp) /\ (temp[1] < 1000 \/ temp[1] > 5000)) => score = 0
    /\ (isna(temp) \/ temp = Some(1000) \/ temp = Some(5000)) =>
         /\ score = round1(rest)
         /\ rest > 0 => score > 0

C5_Witness ==
  /\ Written("habitability_score")
  /\ df["pl_eqt"] = Some(5001)
  /\ df["pl_rade"] = Some(1000)
  /\ df["star_class"] = Some("G")
  /\ df["pl_insol"] = Some(1000)
  /\ df["habitability_score"] = Some(0)

\* The four sub-scores in whole points times 30 (the temperature formula
\* 40 - |T - 255| / 3 is a whole number of thirtieths on the input grid)
C6_TemperaturePart(temp) ==
  IF isna(temp) THEN 0
  ELSE LET T == temp[1] IN
       CASE 2000 <= T /\ T <= 3200 -> 30 * 40 - Abs(T - 2550)
         [] (1800 <= T /\ T < 2000) \/ (3200 < T /\ T <= 3500) -> 30 * 20
         [] (1500 <= T /\ T < 1800) \/ (3500 < T /\ T <= 4000) -> 30 * 10
         [] OTHER -> 0

C6_RadiusPart(radius) ==
  IF isna(radius) THEN 0
  ELSE LET r == radius[1] IN
       CASE 800 <= r /\ r <= 1500 -> 30 * 30
         [] (500 <= r /\ r < 800) \/ (1500 < r /\ r <= 2000) -> 30 * 20
         [] 2000 < r /\ r <= 3000 -> 30 * 10
         [] OTHER -> 0

C6_ClassPart(class) ==
  IF isna(class) THEN 0
  ELSE CASE class[1] = "G" -> 30 * 20 [] class[1] = "K" -> 30 * 18
         [] class[1] = "F" -> 30 * 15 [] class[1] = "M" -> 30 * 12
         [] class[1] = "A" -> 30 * 5 [] OTHER -> 0

C6_InsolationPart(insol) ==
  IF isna(insol) THEN 0
  ELSE LET i == insol[1] IN
       CASE 500 <= i /\ i <= 2000 -> 30 * 10
         [] (250 <= i /\ i < 500) \/ (2000 < i /\ i <= 4000) -> 30 * 5
         [] OTHER -> 0

\* C6: outside the hard gate the score (in tenths) is the tenth nearest to
\* the sum of the four sub-scores, an absent input contributing 0;
\* T=255, r=1.0, class G, insolation 1.0 gives 100.0 and T=450 gives 60.0.
C6_SumOfSubScores ==
  Written("habitability_score") =>
    LET temp == df["pl_eqt"]
        score == df["habitability_score"][1]
        sum == C6_TemperaturePart(temp) + C6_RadiusPart(df["pl_rade"])
                 + C6_ClassPart(df["star_class"]) + C6_InsolationPart(df["pl_insol"])
        ideal == /\ df["pl_rade"] = Some(1000) /\ df["star_class"] = Some("G")
                 /\ df["pl_insol"] = Some(1000)
    IN
    /\ ~(notna(temp) /\ (temp[1] < 1000 \/ temp[1] > 5000)) =>
         3 * score - sum \in {0 - 1, 0, 1}
    /\ (ideal /\ temp = Some(2550)) => score = 1000
    /\ (ideal /\ temp = Some(4500)) => score = 600

C6_Witness ==
  /\ Written("habitability_score")
  /\ df["pl_eqt"] = Some(4500)
  /\ df["pl_rade"] = Some(1000)
  /\ df["star_class"] = Some("G")
  /\ df["pl_insol"] = Some(1000)
  /\ df["habitability_score"] = Some(600)

\* C7: the habitability score of every record lies in [0, 100].
C7_ScoreRange ==
  Written("habitability_score") =>
    /\ notna(df["habitability_score"])
    /\ 0 <= df["habitability_score"][1]
    /\ df["habitability_score"][1] <= 1000

C7_Witness ==
  /\ Written("habitability_score")
  /\ df["pl_eqt"] = Some(2550)
  /\ df["star_class"] = Some("G")
  /\ df["habitability_score"] = Some(1000)

\* The Boolean flag columns, and for each the columns its comparison cannot
\* be true without
FlagRequires ==
  [is_habitable_zone |-> {"pl_eqt"},
   is_earth_like |-> {"pl_rade"},
   is_ultra_short_period |-> {"pl_orbper"},
   is_short_period |-> {"pl_orbper"},
   is_long_period |-> {"pl_orbper"},
   is_eccentric_orbit |-> {"pl_orbeccen"},
   is_circular_orbit |-> {"pl_orbeccen"},
   is_likely_tidally_locked |-> {"pl_orbper", "pl_orbsmax"},
   is_multi_planet_system |-> {"sy_pnum"},
   is_rich_system |-> {"sy_pnum"},
   is_only_known_planet |-> {"sy_pnum"},
   is_circumbinary |-> {"cb_flag"},
   is_multi_star_system |-> {"sy_snum"},
   is_nearby |-> {"sy_dist"},
   is_very_nearby |-> {"sy_dist"},
   is_transiting |-> {},
   has_rv_data |-> {"rv_flag", "pl_rvamp"},
   has_ttv |-> {"ttv_flag"},
   is_controversial |-> {"pl_controv_flag"},
   is_solar_analog |-> {"star_class", "st_mass"},
   is_sun_like_star |-> {"star_class"},
   is_red_dwarf_host |-> {"star_class"},
   is_young_system |-> {"st_age"},
   is_mature_system |-> {"st_age"},
   is_ancient_system |-> {"st_age"},
   is_metal_rich_star |-> {"st_met"},
   is_metal_poor_star |-> {"st_met"},
   is_hot_jupiter |-> {"planet_type", "pl_rade", "pl_eqt"},
   is_hot_neptune |-> {"planet_type", "pl_rade", "pl_eqt"},
   is_ultra_hot |-> {"pl_eqt"},
   is_frozen_world |-> {"pl_eqt"},
   is_ultra_dense |-> {"pl_dens"},
   is_puffy |-> {"pl_dens"},
   is_super_massive |-> {"pl_bmassj"},
   is_lightweight |-> {"pl_bmasse"},
   has_earth_like_insolation |-> {"pl_insol"},
   is_conservative_habitable |-> {"pl_eqt"},
   is_optimistic_habitable |-> {"pl_eqt"},
   is_top_habitable_candidate |-> {"pl_eqt", "pl_rade", "star_class"},
   is_potentially_rocky |-> {"pl_rade"}]

\* C8: every flag written so far is true or false, never unknown, and is
\* false when a column it requires is absent; is_transiting, a disjunction,
\* is false when the transit flag is absent and so is the depth or the period.
C8_FlagsNeverUnknown ==
  \A flag \in DOMAIN FlagRequires :
    Written(flag) =>
      /\ df[flag] \in {Some(TRUE), Some(FALSE)}
      /\ (\E col \in FlagRequires[flag] : isna(df[col])) => df[flag] = Some(FALSE)
      /\ (/\ flag = "is_transiting"
          /\ isna(df["tran_flag"])
          /\ isna(df["pl_trandep"]) \/ isna(df["pl_orbper"])) => df[flag] = Some(FALSE)

C8_Witness ==
  /\ pc = "done"
  /\ isna(df["pl_eqt"])
  /\ df["pl_rade"] = Some(500)
  /\ df["star_class"] = Some("G")
  /\ df["is_habitable_zone"] = Some(FALSE)
  /\ df["is_sun_like_star"] = Some(TRUE)
  /\ df["is_top_habitable_candidate"] = Some(FALSE)

\* C9: with the distance absent all three position components are unknown;
\* with it present each component is its direction component times the
\* distance, or unknown when that direction component alone is absent.
C9_PositionPerComponent ==
  Written("z_pc") =>
    \A axis \in {<<"x", "x_pc">>, <<"y", "y_pc">>, <<"z", "z_pc">>} :
      LET comp == df[axis[1]]
          out == df[axis[2]]
          dist == df["sy_dist"]
      IN
      /\ isna(dist) => isna(out)
      /\ (notna(dist) /\ isna(comp)) => isna(out)
      /\ (notna(dist) /\ notna(comp)) => out = Some(comp[1] * dist[1])

C9_Witness ==
  /\ Written("z_pc")
  /\ df["sy_dist"] = Some(100)
  /\ df["x"] = Some(50) /\ isna(df["y"]) /\ df["z"] = Some(0 - 50)
  /\ df["x_pc"] = Some(5000) /\ isna(df["y_pc"]) /\ df["z_pc"] = Some(0 - 5000)

\* Source column and range of each color factor, in the column's scale
C10_Factors ==
  << <<"color_temp_factor", "pl_eqt", 500, 25000>>,
     <<"color_composition_factor", "pl_dens", 30, 800>>,
     <<"color_irradiation_factor", "pl_insol", 10, 10000000>>,
     <<"color_metallicity_factor", "st_met", 0 - 50, 50>> >>

\* C10: every color factor is a fraction in [0, 1], is 0 at or below the
\* lower bound of its range and 1 at or above the upper bound, and is exactly
\* one half when its measurement is absent; the irradiation factor is also
\* exactly one half when the insolation is not positive.
C10_ColorFactorsClamped ==
  \A i \in 1..Len(C10_Factors) :
    Written(C10_Factors[i][1]) =>
      LET factor == df[C10_Factors[i][1]][1]
          input == df[C10_Factors[i][2]]
          low == C10_Factors[i][3]
          high == C10_Factors[i][4]
          defaulted == isna(input) \/ (i = 3 /\ input[1] <= 0)
      IN
      /\ factor[2] > 0 /\ 0 <= factor[1] /\ factor[1] <= factor[2]
      /\ defaulted => 2 * factor[1] = factor[2]
      /\ (~defaulted /\ input[1] <= low) => factor[1] = 0
      /\ (~defaulted /\ input[1] >= high) => factor[1] = factor[2]

C10_Witness ==
  /\ pc = "done"
  /\ df["pl_insol"] = Some(0)
  /\ df["st_met"] = Some(900)
  /\ df["color_irradiation_factor"] = Some(<<1, 2>>)
  /\ df["color_metallicity_factor"] = Some(<<100, 100>>)
  /\ df["color_temp_factor"] = Some(<<1, 2>>)

(***************************************************************************)
(* Repeated runs.  main is run again after it ended, on a raw file the     *)
(* fetcher may have rewritten meanwhile: the same records in another       *)
(* order, alone, or together with others.  The output file of the earlier  *)
(* run is still there when the next one starts.  The schema is the full    *)
(* allow-list, or the allow-list without the column x.                     *)
(***************************************************************************)
MaxRows == 2

RunRecords ==
  { Row([pl_name |-> Some("b"), pl_eqt |-> Some(2880), pl_rade |-> Some(1000),
         pl_insol |-> Some(1000), st_spectype |-> Some(<<"G">>),
         sy_dist |-> Some(100), x |-> Some(50), y |-> Some(0), z |-> Some(0)]),
    Row([pl_name |-> Some("c"), pl_eqt |-> Some(12000), pl_rade |-> Some(12000),
         st_teff |-> Some(35000)]),
    Row([pl_name |-> Some("d"), pl_rade |-> Some(1500), pl_bmasse |-> Some(6000),
         sy_dist |-> Some(13), x |-> Some(0 - 50)]) }

Frames(records) == UNION {[1..n -> records] : n \in 1..MaxRows}

RunFiles ==
  {Some(frame) : frame \in Frames(RunRecords)}
    \cup {Some(frame) : frame \in Frames({Drop(row, {"x"}) : row \in RunRecords})}

Rerun ==
  /\ pc \in {"done", "raised"}
  /\ raw_file' \in RunFiles
  /\ df' = <<>>
  /\ peers' = <<>>
  /\ pc' = "load_raw_data"
  /\ error' = NaN
  /\ warnings' = {}
  /\ UNCHANGED out_file

NextRuns == Next \/ Rerun

SpecRuns == InitOn(RunFiles, {NaN}) /\ [][NextRuns]_vars

(***************************************************************************)
(* C11.  Schema drift is not fatal: when an allow-listed raw column is     *)
(* missing from the whole dataset, extract_columns reports it and          *)
(* extract_columns followed by add_derived_fields still runs to            *)
(* completion, every derivation that depends solely on the missing column  *)
(* yielding unknown / false / 0.5 instead of raising.                      *)
(* The code does not do this: a derivation that indexes the missing column *)
(* raises KeyError (see C11_Witness_KeyError).                             *)
(***************************************************************************)
AddDerivedFieldsDone == DerivedColumns \subseteq DOMAIN df

RawReads(col) == (Range(Indexed[col]) \cup Gotten(col)) \cap RawColumns

Unreported == {c \in RawColumns : c \notin DOMAIN Head(raw_file[1])}

C11_SchemaDriftNotFatal ==
  notna(raw_file) =>
    /\ pc \notin {"load_raw_data", "extract_columns"} => warnings = Unreported
    /\ pc = "raised" => AddDerivedFieldsDone
    /\ AddDerivedFieldsDone =>
         \A col \in DerivedColumns :
           (RawReads(col) # {} /\ RawReads(col) \subseteq warnings)
             => df[col] \in {NaN, Some(FALSE), Some(HALF)}

\* The run the claim excludes: a missing column ends add_derived_fields
C11_Witness_KeyError ==
  /\ notna(raw_file)
  /\ "pl_rade" \notin DOMAIN Head(raw_file[1])
  /\ warnings = {"pl_rade"}
  /\ pc = "raised"
  /\ error = KeyError("pl_rade")
  /\ "planet_type" \notin DOMAIN df

(***************************************************************************)
(* C12.  If the raw file does not exist when main is invoked, the run      *)
(* fails with the error telling the caller to run the fetch first, before  *)
(* any extraction, derivation, summary or output write: nothing is loaded, *)
(* reported or derived, and the output file is neither created nor         *)
(* modified.                                                               *)
(***************************************************************************)
C12_MissingRawFileFailsFirst ==
  [][isna(raw_file) =>
       /\ pc' = "raised"
       /\ error' = Some(<<"FileNotFoundError", "Run fetch_exoplanets.py first.">>)
       /\ df' = <<>> /\ peers' = <<>> /\ warnings' = {}
       /\ out_file' = out_file]_vars

C12_Witness ==
  /\ isna(raw_file)
  /\ pc = "raised"
  /\ error = FILE_NOT_FOUND
  /\ out_file = OldOutput

(***************************************************************************)
(* C14.  The four formatters return unknown for an absent input and        *)
(* otherwise choose unit and precision by comparing the unrounded value    *)
(* with the thresholds, a value exactly on a threshold falling in the      *)
(* higher band:                                                            *)
(*   distance (parsecs x 3.26156): < 100 ly one decimal, < 1000 ly none,   *)
(*     else thousands of light-years with one decimal;                     *)
(*   period: < 1 day hours, < 30 days days, < 365 days months (days/30),   *)
(*     else years (days/365.25), one decimal each;                         *)
(*   mass: < 0.1 three decimals, < 10 one, < 318 none, in Earth masses,    *)
(*     else Jupiter masses (/317.8) with one decimal;                      *)
(*   radius: < 2 two decimals, < 11.2 one, in Earth radii, else Jupiter    *)
(*     radii (/11.2) with one decimal.                                     *)
(* A band is <<lower bound, mul, den, decimals, unit>>: it applies from    *)
(* its lower bound up to the next band's, and shows value * mul / den      *)
(* rounded to the nearest integer as the digits of the number.             *)
(***************************************************************************)
C14_DistanceBands ==
  << <<0, 1, 100000, 1, "light-years">>,
     <<100000000, 1, 1000000, 0, "light-years">>,
     <<1000000000, 1, 100000000, 1, "k light-years">> >>

C14_PeriodBands ==
  << <<0, 24, 100, 1, "hours">>,
     <<1000, 1, 100, 1, "days">>,
     <<30000, 1, 3000, 1, "months">>,
     <<365000, 1, 36525, 1, "years">> >>

C14_MassBands ==
  << <<0, 1, 1, 3, "Earth masses">>,
     <<100, 1, 100, 1, "Earth masses">>,
     <<10000, 1, 1000, 0, "Earth masses">>,
     <<318000, 1, 31780, 1, "Jupiter masses">> >>

C14_RadiusBands ==
  << <<0, 1, 10, 2, "Earth radii">>,
     <<2000, 1, 100, 1, "Earth radii">>,
     <<11200, 1, 1120, 1, "Jupiter radii">> >>

C14_Shown(value, shown, bands) ==
  LET i == CHOOSE j \in 1..Len(bands) :
             /\ j = 1 \/ bands[j][1] <= value
             /\ j = Len(bands) \/ value < bands[j + 1][1]
      b == bands[i]
  IN
  /\ notna(shown)
  /\ shown[1][1] = FALSE
  /\ 2 * Abs(shown[1][2] * b[3] - value * b[2]) <= b[3]
  /\ shown[1][3] = b[4]
  /\ shown[1][4] = b[5]

C14_Display(raw, scale, col, bands) ==
  Written(col) =>
    IF isna(df[raw]) THEN df[col] = NaN
    ELSE C14_Shown(df[raw][1] * scale, df[col], bands)

C14_FormattersBandByUnroundedValue ==
  /\ C14_Display("sy_dist", 326156, "distance_display", C14_DistanceBands)
  /\ C14_Display("pl_orbper", 1, "period_display", C14_PeriodBands)
  /\ C14_Display("pl_bmasse", 1, "mass_display", C14_MassBands)
  /\ C14_Display("pl_rade", 1, "radius_display", C14_RadiusBands)

\* A period of exactly 1 day is shown in days: "1.0 days"
C14_Witness ==
  /\ Written("period_display")
  /\ df["pl_orbper"] = Some(1000)
  /\ df["period_display"] = Some(<<FALSE, 10, 1, "days">>)

\* 9.96 Earth masses, below 10, get one decimal although they round to "10.0"
C14_Witness_Unrounded ==
  /\ Written("mass_display")
  /\ df["pl_bmasse"] = Some(9960)
  /\ df["mass_display"] = Some(<<FALSE, 100, 1, "Earth masses">>)

(***************************************************************************)
(* C16.  A record flagged is_top_habitable_candidate has a habitability    *)
(* score of at least 50: it is never hard-gated, and its temperature,      *)
(* radius and stellar-class sub-scores are each strictly positive.         *)
(* Scores are in tenths of a point, sub-scores in thirtieths.              *)
(***************************************************************************)
C16_TopCandidateScoresAtLeast50 ==
  (Written("is_top_habitable_candidate")
     /\ df["is_top_habitable_candidate"] = Some(TRUE))
    => /\ df["habitability_score"][1] >= 500
       /\ ~hard_gate(df["pl_eqt"])
       /\ temp_score(df["pl_eqt"]) > 0
       /\ size_score(df["pl_rade"]) > 0
       /\ star_score(df["star_class"]) > 0

\* The lowest-scoring candidate: 320 K, 2.0 Earth radii, an M star, 50.3
C16_Witness ==
  /\ Written("is_top_habitable_candidate")
  /\ df["is_top_habitable_candidate"] = Some(TRUE)
  /\ df["pl_eqt"] = Some(3200)
  /\ df["pl_rade"] = Some(2000)
  /\ df["star_class"] = Some("M")
  /\ df["habitability_score"] = Some(503)

(***************************************************************************)
(* C17.  A record whose planet_subtype is "Hot Jupiter" has planet_type    *)
(* "Gas Giant" and is_hot_jupiter true.                                    *)
(***************************************************************************)
C17_HotJupiterIsHotGasGiant ==
  (Written("is_hot_jupiter") /\ df["planet_subtype"] = Some("Hot Jupiter"))
    => /\ df["planet_type"] = Some("Gas Giant")
       /\ df["is_hot_jupiter"] = Some(TRUE)

\* Just above both thresholds: 10.001 Earth radii at 1000.1 K
C17_Witness ==
  /\ Written("is_hot_jupiter")
  /\ df["planet_subtype"] = Some("Hot Jupiter")
  /\ df["pl_rade"] = Some(10001)
  /\ df["pl_eqt"] = Some(10001)
  /\ df["is_hot_jupiter"] = Some(TRUE)

(***************************************************************************)
(* C15.  In add_derived_fields every derived field is written only after   *)
(* every derived field it reads: star_class before habitability_score,     *)
(* is_solar_analog, is_sun_like_star and is_red_dwarf_host; planet_type    *)
(* before is_hot_jupiter and is_hot_neptune; is_habitable_zone,            *)
(* is_sun_like_star and is_red_dwarf_host before                           *)
(* is_top_habitable_candidate.  No step overwrites a raw column or an      *)
(* earlier derived column.                                                 *)
(***************************************************************************)
C15_ReadsDerived(col) ==
  CASE col \in {"habitability_score", "is_solar_analog", "is_sun_like_star",
                "is_red_dwarf_host"} -> {"star_class"}
    [] col \in {"is_hot_jupiter", "is_hot_neptune"} -> {"planet_type"}
    [] col = "is_top_habitable_candidate" ->
         {"is_habitable_zone", "is_sun_like_star", "is_red_dwarf_host"}
    [] OTHER -> {}

C15_SectionStep ==
  pc \in Range(SECTIONS) =>
    /\ \A col \in DOMAIN df : col \in DOMAIN df' /\ df'[col] = df[col]
    /\ \A col \in DOMAIN df' \ DOMAIN df :
         /\ col \in DerivedColumns \ RawColumns
         /\ (Range(Indexed[col]) \cup Gotten(col)) \cap DerivedColumns
              = C15_ReadsDerived(col)
         /\ C15_ReadsDerived(col) \subseteq DOMAIN df

C15_WrittenAfterReadsNeverOverwritten == [][C15_SectionStep]_vars

\* A top candidate: the flag is written after the three flags and the class
\* it is computed from
C15_Witness ==
  /\ pc = "color_factors"
  /\ df["is_top_habitable_candidate"] = Some(TRUE)
  /\ df["is_habitable_zone"] = Some(TRUE)
  /\ df["is_red_dwarf_host"] = Some(TRUE)
  /\ df["star_class"] = Some("M")
  /\ df["habitability_score"][1] > 0

(***************************************************************************)
(* C13.  Every derived field of a record is a function of that record's    *)
(* own raw fields only: processing the same records in any order, split    *)
(* into any partitions, one at a time or together with other records, or   *)
(* again on the same raw input, yields identical derived values for each   *)
(* record.                                                                 *)
(* Stated on two runs: when add_derived_fields has ended (its frame is     *)
(* about to be saved, or it raised), every record of the frame that the    *)
(* earlier run's output also holds, with the same raw fields, has the      *)
(* derived values it has there.                                            *)
(* The code does not do this when the column x is missing and the other    *)
(* record has a distance (see C13_Witness_PeerDecides).                    *)
(***************************************************************************)
RawOf(row) == [col \in DOMAIN row \cap RawColumns |-> row[col]]

C13_SameAsEarlierRun ==
  LET frame == <<df>> \o peers
      earlier == out_file[1]
  IN \A i \in DOMAIN frame, j \in DOMAIN earlier :
       RawOf(frame[i]) = RawOf(earlier[j]) => frame[i] = earlier[j]

C13_OwnRawFieldsDecide ==
  (notna(raw_file) /\ notna(out_file) /\ pc \in {"save_output", "raised"})
    => C13_SameAsEarlierRun

\* Record c, which has no distance, in a dataset without the column x: alone
\* it was processed and saved; together with record b, which has a distance,
\* the run raises KeyError and c is left without its positions
C13_Witness_PeerDecides ==
  /\ notna(raw_file) /\ notna(out_file)
  /\ Len(out_file[1]) = 1
  /\ "x_pc" \in DOMAIN out_file[1][1]
  /\ pc = "raised"
  /\ error = KeyError("x")
  /\ \E i \in DOMAIN peers :
       /\ RawOf(peers[i]) = RawOf(out_file[1][1])
       /\ "x_pc" \notin DOMAIN peers[i]

\* With every allow-listed column in the raw file the claim holds
C13_OwnRawFieldsDecide_FullSchema ==
  (notna(raw_file) /\ notna(out_file) /\ pc \in {"save_output", "raised"}
     /\ warnings = {})
    => C13_SameAsEarlierRun

C13_Witness_FullSchema ==
  /\ pc = "save_output"
  /\ warnings = {}
  /\ notna(out_file)
  /\ Len(out_file[1]) = 1
  /\ peers # <<>>
  /\ df # peers[1]
  /\ peers[1] = out_file[1][1]

====
